---- MODULE Spec2Model ----
(***************************************************************************)
(* Detection event pipeline of apps/ai_detection/TestAPI.py: the           *)
(* debouncer and alert allocator of process_frame, the evidence recorder   *)
(* (start_recording / stop_recording / auto_stop_recording) and the three  *)
(* fan-out dispatch endpoints.                                             *)
(***************************************************************************)
EXTENDS Integers, Sequences, FiniteSets, Bags, TLC

(***************************************************************************)
(* Bounds of the model and constants of the program.                       *)
(***************************************************************************)
\* Largest wall-clock reading (seconds) a frame is processed at.
MaxTime == 12
\* Largest number of raw detections the detector returns for one frame.
MaxDets == 2
\* Largest number of alerts of a run with the delivery tasks.
MaxAlerts == 2
\* Largest number of configured recipients.
MaxRecipients == 3

\* Largest number of notification threads alive at a time.
MaxThreads == 2

\* The cooldown: the literal 10 of process_frame.
Cooldown == 10
\* model.fire_detection.confidence_threshold, in percent.
Threshold == 50

\* Class names of the detector model.
Labels == {"fire", "smoke"}
\* Confidences (percent) a raw detection may carry.
Confs == {Threshold, 90}
\* Values of notification.initial_alert_counter (default 1).
InitialCounters == {1, 998}
\* Clock advances between two consecutive frames.
Steps == {0, 3, 9, Cooldown}
\* Recipient identities.
Phone(i) == "p" \o ToString(i)

VARIABLES
    \* the configuration file: whatsapp.phone_numbers, whatsapp.phone_number
    \* ("" when absent) and video.recording.enabled
    config_phone_numbers, single_phone, recording_enabled,
    \* configuration, fixed by __init__
    send_images, send_videos, send_text, phone_numbers,
    \* pipeline state
    alert_counter, detection_status, is_recording, video_writer,
    \* the video writers created so far (video_writer indexes this list)
    writers,
    \* asyncio tasks created by process_frame and not finished yet, and the
    \* requests they have posted to the dispatch endpoints
    tasks, handoffs,
    \* locals and result of the last process_frame call
    current_time, current_detected, new_detections, alert, started,
    \* history: flips at every process_frame call; per label the time of the
    \* last frame that classified it new / that contained it; every id
    \* allocated so far
    tick, lastNew, lastSeen, issued,
    \* one request to a dispatch endpoint and the channel calls it made
    dispatch, calls,
    \* history: the writer the last frame was appended to (0: none), and how
    \* the last auto_stop_recording that stopped its session ended
    written, finalized,
    \* the boxes the detector yielded for the last inspected frame, and
    \* whether return_dict["error"] was set for it
    boxes, error,
    \* the reply of the last status query; the state of the server process
    config_status, server,
    \* the browser notifier (whatsapp_notifier.py, gpu.py): the phase of the
    \* application, the driver, the chat that is open, the holder of send_lock
    \* (0: free), the notification threads, and the steps the browser was
    \* driven through
    notifier, whatsapp_driver, current_contact, send_lock, threads, browser,
    \* the threaded pipelines (gpu.py, src/TestAPI.py): the global alert
    \* counter, the threads that run process_frame, the notifications handed
    \* to send_notification_async, and the clock
    global_alert_counter, handlers, notifications, frame_time,
    \* the gateway (python_api.py): the request in progress, and the requests
    \* forwarded to the Baileys server
    gateway, forwards

config_vars == <<config_phone_numbers, single_phone, recording_enabled,
                 send_images, send_videos, send_text, phone_numbers>>
frame_vars == <<alert_counter, detection_status, current_time, current_detected,
                new_detections, alert, started, tick, lastNew, lastSeen, issued,
                written>>
recorder_vars == <<is_recording, video_writer, writers>>
task_vars == <<tasks, handoffs, finalized>>
dispatch_vars == <<dispatch, calls>>
detector_vars == <<boxes, error>>
server_vars == <<config_status, server>>
pipeline_vars == <<config_vars, frame_vars, recorder_vars, task_vars, dispatch_vars,
                   detector_vars, server_vars>>
notifier_vars == <<notifier, whatsapp_driver, current_contact, send_lock, threads, browser>>
legacy_vars == <<global_alert_counter, handlers, notifications, frame_time>>
gateway_vars == <<gateway, forwards>>
\* The state of the other programs of the repository.
peer_vars == <<notifier_vars, legacy_vars, gateway_vars>>
vars == <<pipeline_vars, peer_vars>>

(***************************************************************************)
(* Pure helpers.                                                           *)
(***************************************************************************)
\* f"{n:03d}"
Pad3(n) ==
    IF n < 10 THEN "00" \o ToString(n)
    ELSE IF n < 100 THEN "0" \o ToString(n)
    ELSE ToString(n)

\* f"ALERT{n:03d}"
AlertId(n) == "ALERT" \o Pad3(n)

\* ", ".join(labels)
RECURSIVE Join(_)
Join(labels) ==
    IF Len(labels) = 0 THEN ""
    ELSE IF Len(labels) = 1 THEN labels[1]
    ELSE labels[1] \o ", " \o Join(Tail(labels))

\* "Violation(s) detected: " + ", ".join(new_detections)
Description(labels) == "Violation(s) detected: " \o Join(labels)

Range(seq) == {seq[i] : i \in 1..Len(seq)}

\* History bookkeeping: the labels of S get time t.
Stamp(hist, S, t) == [v \in DOMAIN hist \cup S |-> IF v \in S THEN t ELSE hist[v]]

\* The raw detector outputs of one frame: (label, confidence) pairs.
Detections == UNION {[1..n -> Labels \X Confs] : n \in 0..MaxDets}

\* Those that hold each label at most once, above the threshold.
SureDetections ==
    {dets \in Detections :
        /\ \A i \in 1..Len(dets) : dets[i][2] > Threshold
        /\ \A i, j \in 1..Len(dets) : dets[i][1] = dets[j][1] => i = j}

\* The threshold test with `>=` for `>`.
ViolationsAtThreshold(dets) ==
    LET keep == SelectSeq(dets, LAMBDA d : d[2] >= Threshold)
    IN  [i \in 1..Len(keep) |-> keep[i][1]]

\* return_dict["violation"]: the labels appended under `conf > threshold`.
Violations(dets) ==
    LET keep == SelectSeq(dets, LAMBDA d : d[2] > Threshold)
    IN  [i \in 1..Len(keep) |-> keep[i][1]]

\* set(return_dict["violation"])
ActiveLabels(dets) == Range(Violations(dets))

\* The orders in which a Python set may be iterated.
Orders(S) ==
    {s \in [1..Cardinality(S) -> S] : \A i, j \in 1..Cardinality(S) : s[i] = s[j] => i = j}

\* IsNew without the cooldown: every sighting after the first is new again.
IsNewAlways(violation, status, t) ==
    \/ violation \notin DOMAIN status
    \/ t - status[violation] >= 0

\* IsNew with `>` for `>=`.
IsNewStrict(violation, status, t) ==
    \/ violation \notin DOMAIN status
    \/ t - status[violation] > Cooldown

\* First loop of the debouncer: is `violation` appended to new_detections?
IsNew(violation, status, t) ==
    \/ violation \notin DOMAIN status
    \/ t - status[violation] >= Cooldown

\* IsEvicted with `>` for `>=`.
IsEvictedStrict(violation, status, detected, t) ==
    /\ violation \notin detected
    /\ t - status[violation] > Cooldown

\* The entry deleted by the first frame without the label.
IsEvictedOnAbsence(violation, status, detected, t) == violation \notin detected
\* Second loop of the debouncer: is the entry of `violation` deleted?
IsEvicted(violation, status, detected, t) ==
    /\ violation \notin detected
    /\ t - status[violation] >= Cooldown

\* The labels the first loop classifies new.
NewLabels(status, detected, t) == {v \in detected : IsNew(v, status, t)}

\* The timestamp refreshed at every sighting, new or suppressed.
DebounceRefreshing(status, detected, t) ==
    LET updated == [v \in DOMAIN status \cup detected |->
                        IF v \in detected THEN t ELSE status[v]]
        kept    == {v \in DOMAIN updated : ~IsEvicted(v, updated, detected, t)}
    IN  [v \in kept |-> updated[v]]

\* detection_status after both loops.
Debounce(status, detected, t) ==
    LET fresh   == NewLabels(status, detected, t)
        updated == [v \in DOMAIN status \cup fresh |->
                        IF v \in fresh THEN t ELSE status[v]]
        kept    == {v \in DOMAIN updated : ~IsEvicted(v, updated, detected, t)}
    IN  [v \in kept |-> updated[v]]

\* Allocation: is an alert built, its id, and the counter after the frame.
Fires(fresh) == fresh # {}
\* The id read after the increment instead of before it.
AllocatedIdLate(counter) == AlertId(counter + 1)
AllocatedId(counter) == AlertId(counter)
\* One increment per new label instead of one per frame.
NextCounterPerLabel(counter, fresh) == counter + Cardinality(fresh)
NextCounter(counter, fresh) == IF Fires(fresh) THEN counter + 1 ELSE counter

\* start_recording generates its own alert id from the counter it reads.
RecordingId(counter) == AlertId(counter)

\* f"data/videos/violations/violation_{alert_id}_{timestamp}.mp4"
VideoPath(id, t) == "violation_" \o id \o "_" \o ToString(t) \o ".mp4"

\* The mode conditions of process_frame.
\* The image held back while a recording is active.
WantsImageWhenIdle == send_images /\ ~is_recording
WantsImage == send_images
WantsRecording == send_videos /\ ~is_recording
\* The text condition without its `not send_images and not send_videos`.
WantsTextAlways == send_text
WantsText == send_text /\ ~send_images /\ ~send_videos

\* The mode the configuration test prints for a configuration.
Mode(images, videos, recording) ==
    IF videos /\ recording THEN "Video clips with captions"
    ELSE IF images THEN "Images with captions"
    ELSE "Text messages only"

\* start_recording: does it create a writer and return the file path?
StartsRecording(start_ok) == ~is_recording /\ start_ok

\* A recording started for every alert, whether or not one is active.
RecordsAlways(fires, start_ok) == fires /\ send_videos /\ start_ok
\* Does the frame start a recording session (and its stop timer)?
Records(fires, start_ok) == fires /\ WantsRecording /\ StartsRecording(start_ok)

\* The frame appended to a writer that is not recording.
WritesAlways(recording, writer) == writer # 0
\* `if self.is_recording and self.video_writer`: is the frame written?
Writes(recording, writer) == recording /\ writer # 0

\* Every delivery awaited where it is created.
AwaitedAll(pending) == pending
\* The pending tasks process_frame waits for: it hands each delivery to
\* asyncio.create_task and awaits none.
Awaited(pending) == {}

\* The server process is up: the event loop runs handlers and tasks.
Running == server = "running"

Task(kind, id, arg) == [kind |-> kind, alert_id |-> id, arg |-> arg, phase |-> "pending"]

NoAlert == [id |-> "", description |-> "", labels |-> <<>>]

\* No status query answered yet.
NoStatus ==
    [send_images |-> FALSE, send_videos |-> FALSE, send_text |-> FALSE,
     phone_numbers |-> <<>>, phone_numbers_count |-> 0,
     recording_active |-> FALSE, alert_counter |-> 0]

\* phone_numbers without the fallback.
RecipientListAsConfigured(cfg_numbers, cfg_number) == cfg_numbers
\* __init__: phone_numbers, with the fallback to the single phone_number.
RecipientList(cfg_numbers, cfg_number) ==
    IF cfg_numbers # <<>> THEN cfg_numbers
    ELSE IF cfg_number # "" THEN <<cfg_number>>
    ELSE <<>>

PhoneLists == {[i \in 1..n |-> Phone(i)] : n \in 0..MaxRecipients}

(***************************************************************************)
(* Initial state: the object after __init__.                               *)
(***************************************************************************)
\* The chats a notification may be addressed to.
Contacts == {"Fares Voda", "Control Room"}
\* current_contact = None
NoContact == ""
NotifierThreads == 1..MaxThreads
NoThread == [pc |-> "unstarted", contact_name |-> NoContact]

\* The notifier after __init__, before the startup event.
InitNotifier ==
    /\ notifier = "startup"
    /\ whatsapp_driver = FALSE
    /\ current_contact = NoContact
    /\ send_lock = 0
    /\ threads = [th \in NotifierThreads |-> NoThread]
    /\ browser = <<>>

\* The threads that run process_frame of the threaded pipelines: the
\* threadpool thread that iterates generate_frames for /video_feed, and the
\* event-loop thread that runs the handler of /meta_data.
Handlers == {"video_feed", "meta_data"}
NoHandler == [pc |-> "idle", alert_id |-> "", labels |-> {}, loaded |-> 0]

InitLegacy ==
    /\ global_alert_counter = 1
    /\ handlers = [h \in Handlers |-> NoHandler]
    /\ notifications = <<>>
    /\ frame_time = 0

NoRequest == [state |-> "idle"]

InitGateway ==
    /\ gateway = NoRequest
    /\ forwards = <<>>

InitPipeline ==
    /\ InitNotifier
    /\ InitLegacy
    /\ InitGateway
    /\ detection_status = << >>
    /\ is_recording = FALSE
    /\ video_writer = 0
    /\ writers = <<>>
    /\ tasks = {}
    /\ handoffs = EmptyBag
    /\ current_time = 0
    /\ current_detected = {}
    /\ new_detections = <<>>
    /\ alert = NoAlert
    /\ started = {}
    /\ tick = FALSE
    /\ lastNew = << >>
    /\ lastSeen = << >>
    /\ issued = <<>>
    /\ dispatch = [state |-> "idle"]
    /\ calls = <<>>
    /\ written = 0
    /\ finalized = "none"
    /\ boxes = <<>>
    /\ error = FALSE
    /\ config_status = NoStatus
    /\ server = "running"

\* The keys of the configuration file that are at their defaults (no
\* phone_number, recording not enabled) unless a specification varies them.
ConfigFile(numbers, recordings) ==
    /\ single_phone \in numbers
    /\ recording_enabled \in recordings

NoNumber == {""}
Numbers == {"", Phone(9)}
RecordingOff == {FALSE}

InitConfig(flags, lists, counters) ==
    /\ \E f \in flags : send_images = f[1] /\ send_videos = f[2] /\ send_text = f[3]
    /\ config_phone_numbers \in lists
    /\ phone_numbers = RecipientList(config_phone_numbers, single_phone)
    /\ alert_counter \in counters

\* The defaults of __init__: images and text on, videos off.
DefaultFlags == {<<TRUE, FALSE, TRUE>>}
AllFlags == BOOLEAN \X BOOLEAN \X BOOLEAN
DefaultList == {[i \in 1..n |-> Phone(i)] : n \in {MaxRecipients}}
SingleList == {<<Phone(1)>>}

(***************************************************************************)
(* process_frame.  The coroutine has no await, so it runs as one step.     *)
(***************************************************************************)
ProcessFrame(t, dets, start_ok) ==
    \E order \in Orders(NewLabels(detection_status, ActiveLabels(dets), t)) :
    LET detected  == ActiveLabels(dets)
        fresh     == NewLabels(detection_status, detected, t)
        fires     == Fires(fresh)
        id        == AllocatedId(alert_counter)
        counter2  == NextCounter(alert_counter, fresh)
        record    == Records(fires, start_ok)
        path      == VideoPath(RecordingId(counter2), t)
        created   == (IF fires /\ WantsImage THEN {Task("image", id, "")} ELSE {})
                     \cup (IF record THEN {Task("auto_stop", id, path)} ELSE {})
                     \cup (IF fires /\ WantsText
                           THEN {Task("text", id, Description(order))} ELSE {})
        recording == is_recording \/ record
        writer    == IF record THEN Len(writers) + 1 ELSE video_writer
    IN  /\ Running
        /\ Awaited(tasks) = {}
        /\ t >= current_time
        /\ start_ok \/ (fires /\ WantsRecording)
        /\ current_time' = t
        /\ current_detected' = detected
        /\ new_detections' = order
        /\ detection_status' = Debounce(detection_status, detected, t)
        /\ alert_counter' = counter2
        /\ alert' = IF fires
                    THEN [id |-> id, description |-> Description(order), labels |-> order]
                    ELSE NoAlert
        /\ issued' = IF fires THEN Append(issued, id) ELSE issued
        /\ IF record
           THEN /\ writers' = Append(writers, [path |-> path, released |-> FALSE])
                /\ video_writer' = Len(writers) + 1
                /\ is_recording' = TRUE
           ELSE UNCHANGED recorder_vars
        /\ tasks' = tasks \cup created
        /\ started' = {k.kind : k \in created}
        /\ tick' = ~tick
        /\ lastNew' = Stamp(lastNew, fresh, t)
        /\ lastSeen' = Stamp(lastSeen, detected, t)
        /\ written' = IF Writes(recording, writer) THEN writer ELSE 0
        /\ UNCHANGED <<config_vars, handoffs, finalized, dispatch_vars, server_vars, peer_vars>>

\* A frame of the video feed, read some time after the previous one.
Frame ==
    \E dt \in Steps, dets \in Detections, start_ok \in BOOLEAN :
        /\ current_time + dt <= MaxTime
        /\ ProcessFrame(current_time + dt, dets, start_ok)
        /\ UNCHANGED detector_vars

\* The same, for a feed whose frames arrive at once or a whole cooldown
\* apart, hold each label at most once and above the threshold, and that
\* ends after MaxAlerts alerts.
SparseFrame ==
    \E dt \in {0, Cooldown}, dets \in SureDetections, start_ok \in BOOLEAN :
        /\ current_time + dt <= MaxTime
        /\ Len(issued) < MaxAlerts
        /\ ProcessFrame(current_time + dt, dets, start_ok)
        /\ UNCHANGED detector_vars

\* A frame whose detector run is inspected.  `dets` are the boxes the loop
\* of process_frame went through: all the detector found or, when `raises`,
\* those handled before the exception that the `except` of the detection
\* block catches; return_dict["violation"] keeps what was appended till then.
\* The feed ends after MaxAlerts alerts.
InspectedFrame ==
    \E dt \in {0, Cooldown}, dets \in Detections, raises \in BOOLEAN :
        /\ current_time + dt <= MaxTime
        /\ Len(issued) < MaxAlerts
        /\ ProcessFrame(current_time + dt, dets, TRUE)
        /\ boxes' = dets
        /\ error' = raises

\* A frame of a feed that shows fire or nothing and ends after MaxAlerts
\* alerts.
FireFrame ==
    \E dt \in {0, Cooldown}, start_ok \in BOOLEAN,
       dets \in {d \in SureDetections : ActiveLabels(d) \subseteq {"fire"}} :
        /\ current_time + dt <= MaxTime
        /\ Len(issued) < MaxAlerts
        /\ ProcessFrame(current_time + dt, dets, start_ok)
        /\ UNCHANGED detector_vars

(***************************************************************************)
(* The recorder and the delivery tasks.  Each action is the run of a       *)
(* coroutine between two awaits.                                           *)
(***************************************************************************)
\* stop_recording: does it release the writer and return True?
Stops(release_ok) == is_recording /\ video_writer # 0 /\ release_ok

Handoff(kind, id, arg) == [kind |-> kind, alert_id |-> id, arg |-> arg]

\* auto_stop_recording, from the end of its sleep to the await that follows
\* stop_recording (or to its end when stop_recording returns False).
AutoStop(task, release_ok) ==
    /\ Running
    /\ task \in tasks
    /\ task.kind = "auto_stop"
    /\ task.phase = "pending"
    /\ IF Stops(release_ok)
       THEN /\ writers' = [writers EXCEPT ![video_writer].released = TRUE]
            /\ is_recording' = FALSE
            /\ tasks' = (tasks \ {task}) \cup {[task EXCEPT !.phase = "stopped"]}
       ELSE /\ UNCHANGED <<writers, is_recording>>
            /\ tasks' = tasks \ {task}
    /\ UNCHANGED <<config_vars, frame_vars, video_writer, handoffs, finalized,
                   dispatch_vars, detector_vars, server_vars, peer_vars>>

\* The post attempted for a file that does not exist.
DeliversMissing(exists, posted) == posted
\* Does the request of auto_stop_recording reach /send-video-to-whatsapp?
\* `exists`: os.path.exists(video_path); `posted`: open and post did not raise.
Delivers(exists, posted) == exists /\ posted

\* How auto_stop_recording ends after stop_recording returned True: the
\* file is not found (logged), the post was made, or the exception of the
\* hand-off was caught and logged.
Finalized(exists, posted) ==
    IF ~exists THEN "not_found" ELSE IF posted THEN "posted" ELSE "caught"

\* auto_stop_recording after stop_recording returned True: the check for
\* the file and the post to /send-video-to-whatsapp.
AutoStopSend(task, exists, posted) ==
    /\ Running
    /\ task \in tasks
    /\ task.kind = "auto_stop"
    /\ task.phase = "stopped"
    /\ tasks' = tasks \ {task}
    /\ handoffs' = IF Delivers(exists, posted)
                   THEN handoffs (+) SetToBag({Handoff("video", task.alert_id, task.arg)})
                   ELSE handoffs
    /\ finalized' = Finalized(exists, posted)
    /\ UNCHANGED <<config_vars, frame_vars, recorder_vars, dispatch_vars,
                   detector_vars, server_vars, peer_vars>>

\* save_and_send_violation_image_via_endpoint.
ImageTask(task, saved, posted) ==
    /\ Running
    /\ task \in tasks
    /\ task.kind = "image"
    /\ tasks' = tasks \ {task}
    /\ handoffs' = IF saved /\ posted
                   THEN handoffs (+) SetToBag({Handoff("image", task.alert_id, task.arg)})
                   ELSE handoffs
    /\ UNCHANGED <<config_vars, frame_vars, recorder_vars, finalized, dispatch_vars,
                   detector_vars, server_vars, peer_vars>>

\* send_text_alert_via_endpoint.
TextTask(task, posted) ==
    /\ Running
    /\ task \in tasks
    /\ task.kind = "text"
    /\ tasks' = tasks \ {task}
    /\ handoffs' = IF posted
                   THEN handoffs (+) SetToBag({Handoff("text", task.alert_id, task.arg)})
                   ELSE handoffs
    /\ UNCHANGED <<config_vars, frame_vars, recorder_vars, finalized, dispatch_vars,
                   detector_vars, server_vars, peer_vars>>

StopTimer == \E task \in tasks, release_ok \in BOOLEAN : AutoStop(task, release_ok)
VideoHandoff == \E task \in tasks, exists \in BOOLEAN, posted \in BOOLEAN :
                    AutoStopSend(task, exists, posted)
ImageHandoff == \E task \in tasks, saved \in BOOLEAN, posted \in BOOLEAN :
                    ImageTask(task, saved, posted)
TextHandoff == \E task \in tasks, posted \in BOOLEAN : TextTask(task, posted)

(***************************************************************************)
(* The dispatch endpoints send_video_to_whatsapp_endpoint,                 *)
(* send_image_to_whatsapp_endpoint and send_message_to_whatsapp_endpoint.  *)
(***************************************************************************)
Kinds == {"video", "image", "message"}

\* What the channel does with one request: a 200 reply with success true,
\* a 200 reply with success false, a non-200 reply, an exception or timeout.
Replies == {"ok", "rejected", "http_error", "exception"}

\* The path the endpoint posts to under whatsapp_api_url.
ChannelPath(kind) ==
    CASE kind = "video" -> "/send-video"
      [] kind = "image" -> "/send-image"
      [] kind = "message" -> "/send"

Title(kind) ==
    CASE kind = "video" -> "Video"
      [] kind = "image" -> "Image"
      [] kind = "message" -> "Message"

\* The entry appended to `results` for one recipient.
Detail(phone, reply) ==
    CASE reply = "ok" -> [phone |-> phone, status |-> "success", error |-> ""]
      [] reply = "rejected" -> [phone |-> phone, status |-> "failed", error |-> "Unknown error"]
      [] reply = "http_error" -> [phone |-> phone, status |-> "failed", error |-> "HTTP 500"]
      [] reply = "exception" -> [phone |-> phone, status |-> "failed", error |-> "timed out"]

\* success_count after one recipient.
Counted(count, reply) == IF reply = "ok" THEN count + 1 ELSE count

\* Is the success branch of the final `if` taken?
Succeeded(count) == count > 0

\* The dict the endpoint returns after the loop.
Outcome(kind, count, total, id, results) ==
    IF Succeeded(count)
    THEN [success |-> TRUE,
          message |-> Title(kind) \o " sent to " \o ToString(count) \o "/"
                      \o ToString(total) \o " numbers",
          alert_id |-> id,
          results |-> results]
    ELSE [success |-> FALSE,
          message |-> "Failed to send " \o kind \o " to any number",
          results |-> results]

\* The missing-recipients return answering with success.
RejectedAsSuccess(kind, has_payload) ==
    IF ~has_payload
    THEN [success |-> FALSE, message |-> "No " \o kind \o " provided"]
    ELSE [success |-> TRUE, message |-> "No phone numbers configured"]

\* The early returns: no payload, no recipients.
Rejected(kind, has_payload) ==
    IF ~has_payload
    THEN [success |-> FALSE,
          message |-> IF kind = "message" THEN "No message provided"
                      ELSE "No " \o kind \o " file provided"]
    ELSE [success |-> FALSE, message |-> "No phone numbers configured"]

\* Is the request answered before the loop?
ReturnsEarly(has_payload) == ~has_payload \/ phone_numbers = <<>>

\* The loop left at the first recipient whose post raises.
MoreRecipientsUntilError(results, reply) ==
    Len(results) < Len(phone_numbers) /\ reply # "exception"
\* `for phone_number in self.phone_numbers`: is there a next iteration?
MoreRecipients(results, reply) == Len(results) < Len(phone_numbers)

\* The handler taking an id for the request from alert_counter.
DispatchBeginAllocating(kind, has_payload, id) ==
    /\ Running
    /\ dispatch.state \in {"idle", "done"}
    /\ calls' = <<>>
    /\ dispatch' =
         IF ReturnsEarly(has_payload)
         THEN [state |-> "done", kind |-> kind, payload |-> has_payload,
               outcome |-> Rejected(kind, has_payload)]
         ELSE IF MoreRecipients(<<>>, "ok")
         THEN [state |-> "sending", kind |-> kind, payload |-> has_payload,
               alert_id |-> id, results |-> <<>>, success_count |-> 0]
         ELSE [state |-> "done", kind |-> kind, payload |-> has_payload,
               success_count |-> 0,
               outcome |-> Outcome(kind, 0, Len(phone_numbers), id, <<>>)]
    /\ alert_counter' = alert_counter + 1
    /\ UNCHANGED <<detection_status, current_time, current_detected, new_detections,
                   alert, started, tick, lastNew, lastSeen, issued, written>>
    /\ UNCHANGED <<config_vars, recorder_vars, task_vars, detector_vars, server_vars, peer_vars>>

\* A request arrives: the handler runs up to its first post to the channel.
DispatchBegin(kind, has_payload, id) ==
    /\ Running
    /\ dispatch.state \in {"idle", "done"}
    /\ calls' = <<>>
    /\ dispatch' =
         IF ReturnsEarly(has_payload)
         THEN [state |-> "done", kind |-> kind, payload |-> has_payload,
               outcome |-> Rejected(kind, has_payload)]
         ELSE IF MoreRecipients(<<>>, "ok")
         THEN [state |-> "sending", kind |-> kind, payload |-> has_payload,
               alert_id |-> id, results |-> <<>>, success_count |-> 0]
         ELSE [state |-> "done", kind |-> kind, payload |-> has_payload,
               success_count |-> 0,
               outcome |-> Outcome(kind, 0, Len(phone_numbers), id, <<>>)]
    /\ UNCHANGED <<config_vars, frame_vars, recorder_vars, task_vars,
                   detector_vars, server_vars, peer_vars>>

\* The post to the channel for the next recipient ends with `reply`; the
\* loop goes on to the next recipient, or the handler returns.
DispatchLoop(reply) ==
    /\ Running
    /\ dispatch.state = "sending"
    /\ LET phone   == phone_numbers[Len(dispatch.results) + 1]
           results == Append(dispatch.results, Detail(phone, reply))
           count   == Counted(dispatch.success_count, reply)
       IN  /\ calls' = Append(calls, [phone |-> phone, path |-> ChannelPath(dispatch.kind),
                                      reply |-> reply])
           /\ dispatch' =
                IF MoreRecipients(results, reply)
                THEN [dispatch EXCEPT !.results = results, !.success_count = count]
                ELSE [state |-> "done", kind |-> dispatch.kind, payload |-> TRUE,
                      success_count |-> count,
                      outcome |-> Outcome(dispatch.kind, count, Len(phone_numbers),
                                          dispatch.alert_id, results)]
    /\ UNCHANGED <<config_vars, frame_vars, recorder_vars, task_vars,
                   detector_vars, server_vars>>

\* The same, with a channel that is outside the model.
DispatchSend(reply) == DispatchLoop(reply) /\ UNCHANGED peer_vars

Request == \E kind \in Kinds, has_payload \in BOOLEAN, id \in {AlertId(1)} :
               DispatchBegin(kind, has_payload, id)
Reply == \E reply \in Replies : DispatchSend(reply)

(***************************************************************************)
(* The status query and the end of the server process.                     *)
(***************************************************************************)
\* The reply with recording_active taken from the writer handle.
StatusReplyByWriter ==
    [send_images |-> send_images, send_videos |-> send_videos, send_text |-> send_text,
     phone_numbers |-> phone_numbers, phone_numbers_count |-> Len(phone_numbers),
     recording_active |-> video_writer # 0, alert_counter |-> alert_counter]
\* The dict get_config_status returns (without the constants of the
\* deployment: threshold, channel URL, endpoint list, and the timestamp).
StatusReply ==
    [send_images |-> send_images, send_videos |-> send_videos, send_text |-> send_text,
     phone_numbers |-> phone_numbers, phone_numbers_count |-> Len(phone_numbers),
     recording_active |-> is_recording, alert_counter |-> alert_counter]

GetConfigStatus ==
    /\ Running
    /\ config_status' = StatusReply
    /\ UNCHANGED <<config_vars, frame_vars, recorder_vars, task_vars, dispatch_vars,
                   detector_vars, server, peer_vars>>

\* The state the server enters on the shutdown signal.  shutdown_event only
\* logs: no handler waits for the tasks process_frame created or for a
\* request in its loop, so the event loop closes with them unfinished.
AfterSignal == "stopped"

Shutdown ==
    /\ Running
    /\ server' = AfterSignal
    /\ UNCHANGED <<config_vars, frame_vars, recorder_vars, task_vars, dispatch_vars,
                   detector_vars, config_status, peer_vars>>

(***************************************************************************)
(* The browser notifier: WhatsAppNotifier of whatsapp_notifier.py and       *)
(* src/whatsapp_notifier.py, and the same functions of gpu.py.  One action  *)
(* per step of a thread between two points where another thread may run.   *)
(***************************************************************************)
\* startup_event: init_driver, login and open_contact_chat on the main
\* thread, before the application serves.  open_contact_chat assigns
\* current_contact without taking send_lock; it catches its exceptions.
StartupEvent(driver_ok, chat_ok, contact_name) ==
    /\ notifier = "startup"
    /\ notifier' = "serving"
    /\ whatsapp_driver' = driver_ok
    /\ IF driver_ok
       THEN /\ browser' = Append(browser, [thread |-> 0, step |-> "search"])
            /\ current_contact' = IF chat_ok THEN contact_name ELSE current_contact
       ELSE UNCHANGED <<browser, current_contact>>
    /\ UNCHANGED <<send_lock, threads>>
    /\ UNCHANGED <<pipeline_vars, legacy_vars, gateway_vars>>

\* A lock that lets every thread in.
CanAcquireAlways(lock) == TRUE
\* threading.Lock: acquire blocks while another thread holds the lock.
CanAcquire(lock) == lock = 0

\* The steps of send_message that drive the browser.
SendSteps == {"search", "click", "paste", "enter"}
\* The positions of a thread inside `with self.send_lock`.
InsideLock == {"check"} \cup SendSteps \cup {"release"}

\* send_violation_notification_async starts a thread; the thread builds the
\* message and enters send_message, which raises when there is no driver.
StartThread(th, contact_name) ==
    /\ notifier = "serving"
    /\ threads[th].pc = "unstarted"
    /\ threads' = [threads EXCEPT ![th] =
                      [pc |-> IF whatsapp_driver THEN "acquire" ELSE "raised",
                       contact_name |-> contact_name]]
    /\ UNCHANGED <<notifier, whatsapp_driver, current_contact, send_lock, browser>>
    /\ UNCHANGED <<pipeline_vars, legacy_vars, gateway_vars>>

\* `with self.send_lock:` is entered.
Acquire(th) ==
    /\ threads[th].pc = "acquire"
    /\ CanAcquire(send_lock)
    /\ send_lock' = th
    /\ threads' = [threads EXCEPT ![th].pc = "check"]
    /\ UNCHANGED <<notifier, whatsapp_driver, current_contact, browser>>
    /\ UNCHANGED <<pipeline_vars, legacy_vars, gateway_vars>>

\* `if self.current_contact != contact_name`
CheckContact(th) ==
    /\ threads[th].pc = "check"
    /\ threads' = [threads EXCEPT ![th].pc =
                      IF current_contact # threads[th].contact_name
                      THEN "search" ELSE "paste"]
    /\ UNCHANGED <<notifier, whatsapp_driver, current_contact, send_lock, browser>>
    /\ UNCHANGED <<pipeline_vars, legacy_vars, gateway_vars>>

\* The position after a browser step: the next step, or the end of the
\* `with` block when the step raised (the `except` inside it logs).
AfterStep(step, ok) ==
    IF ~ok THEN "release"
    ELSE CASE step = "search" -> "click"
           [] step = "click" -> "paste"
           [] step = "paste" -> "enter"
           [] step = "enter" -> "release"

\* One browser step of send_message: the search box is filled; the contact
\* is clicked and current_contact assigned; the message is put in the box;
\* ENTER is sent.
SendStep(th, ok) ==
    LET step == threads[th].pc
    IN  /\ step \in SendSteps
        /\ browser' = Append(browser, [thread |-> th, step |-> step])
        /\ current_contact' = IF step = "click" /\ ok
                               THEN threads[th].contact_name ELSE current_contact
        /\ threads' = [threads EXCEPT ![th].pc = AfterStep(step, ok)]
        /\ UNCHANGED <<notifier, whatsapp_driver, send_lock>>
        /\ UNCHANGED <<pipeline_vars, legacy_vars, gateway_vars>>

\* The `with` block is left: the lock is released.
Release(th) ==
    /\ threads[th].pc = "release"
    /\ send_lock' = 0
    /\ threads' = [threads EXCEPT ![th].pc = "done"]
    /\ UNCHANGED <<notifier, whatsapp_driver, current_contact, browser>>
    /\ UNCHANGED <<pipeline_vars, legacy_vars, gateway_vars>>

Startup == \E driver_ok \in BOOLEAN, chat_ok \in BOOLEAN, contact_name \in Contacts :
               StartupEvent(driver_ok, chat_ok, contact_name)
Notify == \E th \in NotifierThreads, contact_name \in Contacts : StartThread(th, contact_name)
Lock == \E th \in NotifierThreads : Acquire(th)
Select == \E th \in NotifierThreads : CheckContact(th)
Drive == \E th \in NotifierThreads, ok \in BOOLEAN : SendStep(th, ok)
Unlock == \E th \in NotifierThreads : Release(th)

(***************************************************************************)
(* The threaded pipelines: process_frame of gpu.py and of src/TestAPI.py.  *)
(* generate_frames is a plain generator that the framework iterates on a   *)
(* threadpool thread, and the handler of /meta_data calls process_frame on *)
(* the event-loop thread: the two run process_frame at the same time, and  *)
(* nothing guards the global alert_counter.                                *)
(***************************************************************************)
\* `if violation_list:` is an alert built for the frame?
Alerts(labels) == labels # {}

\* process_frame up to `if violation_list:`: the detector yields `labels`
\* for a frame read dt after the previous one.
Detect(h, labels, dt) ==
    /\ handlers[h].pc = "idle"
    /\ frame_time + dt <= MaxTime
    /\ Len(notifications) + Cardinality({k \in Handlers : handlers[k].pc = "allocate"})
          < MaxAlerts
    /\ frame_time' = frame_time + dt
    /\ handlers' = [handlers EXCEPT ![h] =
                       [NoHandler EXCEPT !.pc = IF Alerts(labels) THEN "allocate" ELSE "idle",
                                         !.labels = labels]]
    /\ UNCHANGED <<global_alert_counter, notifications>>
    /\ UNCHANGED <<pipeline_vars, notifier_vars, gateway_vars>>

\* alert_id = f"ALERT{alert_counter:03d}" and send_notification_async(...).
Allocate(h) ==
    /\ handlers[h].pc = "allocate"
    /\ notifications' = Append(notifications,
                               [alert_id |-> AlertId(global_alert_counter),
                                labels |-> handlers[h].labels,
                                time |-> frame_time,
                                handler |-> h])
    /\ handlers' = [handlers EXCEPT ![h].pc = "load",
                                    ![h].alert_id = AlertId(global_alert_counter)]
    /\ UNCHANGED <<global_alert_counter, frame_time>>
    /\ UNCHANGED <<pipeline_vars, notifier_vars, gateway_vars>>

\* `alert_counter += 1`, first half: the global is loaded.
Load(h) ==
    /\ handlers[h].pc = "load"
    /\ handlers' = [handlers EXCEPT ![h].pc = "store", ![h].loaded = global_alert_counter]
    /\ UNCHANGED <<global_alert_counter, notifications, frame_time>>
    /\ UNCHANGED <<pipeline_vars, notifier_vars, gateway_vars>>

\* `alert_counter += 1`, second half: the sum is stored.
Store(h) ==
    /\ handlers[h].pc = "store"
    /\ global_alert_counter' = handlers[h].loaded + 1
    /\ handlers' = [handlers EXCEPT ![h].pc = "idle"]
    /\ UNCHANGED <<notifications, frame_time>>
    /\ UNCHANGED <<pipeline_vars, notifier_vars, gateway_vars>>

LegacyFrame == \E h \in Handlers, labels \in SUBSET Labels, dt \in {0, 3, Cooldown} :
                   Detect(h, labels, dt)
LegacyAllocate == \E h \in Handlers : Allocate(h)
LegacyLoad == \E h \in Handlers : Load(h)
LegacyStore == \E h \in Handlers : Store(h)

(***************************************************************************)
(* The gateway: the handlers of /send, /send-image and /send-image-url of  *)
(* python_api.py.  A handler runs from one await to the next.               *)
(***************************************************************************)
Endpoints == {"/send", "/send-image", "/send-image-url"}

\* The path of the Baileys server a handler posts to.
BaileysPath(endpoint) ==
    CASE endpoint = "/send" -> "/send-message"
      [] endpoint = "/send-image" -> "/send-image"
      [] endpoint = "/send-image-url" -> "/send-image-url"

\* What GET /health of the Baileys server gives: 200 with connected true, 200
\* with connected false or absent, another status, an exception or timeout.
HealthReplies == {"connected", "disconnected", "http_error", "exception"}

\* check_baileys_health
CheckBaileysHealth(reply) ==
    CASE reply = "connected" -> [healthy |-> TRUE, connected |-> TRUE]
      [] reply = "disconnected" -> [healthy |-> TRUE, connected |-> FALSE]
      [] reply = "http_error" -> [healthy |-> FALSE, connected |-> FALSE]
      [] reply = "exception" -> [healthy |-> FALSE, connected |-> FALSE]

NotChecked == [healthy |-> FALSE, connected |-> FALSE]

\* The validation without the test of the message / image URL.
InvalidPhone(endpoint, phone, payload) == phone = ""
\* `if not request.phone or not request.message` (/send),
\* `if not phone` (/send-image; `payload` is its optional caption),
\* `if not request.phone or not request.imageUrl` (/send-image-url).
Invalid(endpoint, phone, payload) ==
    IF endpoint = "/send-image" THEN phone = ""
    ELSE phone = "" \/ payload = ""

\* The gate that looks at `healthy` only.
PassesHealthy(health) == health.healthy
\* Neither `if not baileys_health["healthy"]` nor
\* `if not baileys_health["connected"]` raises.
Passes(health) == health.healthy /\ health.connected

\* What the post to the Baileys server gives: 200 with the expected JSON,
\* 200 with a body that lacks a key or is not JSON, a non-200 reply whose
\* body is a JSON object, a non-200 reply whose body is not JSON,
\* httpx.TimeoutException, another httpx.RequestError; and, for /send-image,
\* an exception of `await image.read()` before the post.
Upstreams ==
    {[kind |-> "ok", status |-> 200], [kind |-> "ok_unreadable", status |-> 200],
     [kind |-> "timeout", status |-> 0], [kind |-> "request_error", status |-> 0],
     [kind |-> "read_error", status |-> 0]}
    \cup {[kind |-> k, status |-> c] : k \in {"error_json", "error_unreadable"},
                                      c \in {400, 500, 502}}

\* No post made yet.
NoUpstream == [kind |-> "none", status |-> 0]

\* Is the post made?
Posts(upstream) == upstream.kind # "read_error"

\* Is an httpx reply received?
Replied(upstream) == upstream.kind \in {"ok", "ok_unreadable", "error_json", "error_unreadable"}

\* The status the client gets after the post: the branches on
\* response.status_code and the `except` chain of the handler.
ForwardStatus(upstream) ==
    CASE upstream.kind = "ok" -> 200
      [] upstream.kind = "ok_unreadable" -> 500
      [] upstream.kind = "error_json" -> upstream.status
      [] upstream.kind = "error_unreadable" -> 500
      [] upstream.kind = "timeout" -> 504
      [] upstream.kind = "request_error" -> 503
      [] upstream.kind = "read_error" -> 500

Answer(request, status) == [request EXCEPT !.state = "done", !.status = status]

\* A request arrives: the handler validates it and awaits the health check.
Receive(endpoint, phone, payload) ==
    LET request == [state |-> "health", endpoint |-> endpoint, phone |-> phone,
                    payload |-> payload, checks |-> 0, health |-> NotChecked,
                    upstream |-> NoUpstream, status |-> 0]
    IN  /\ gateway.state \in {"idle", "done"}
        /\ forwards' = <<>>
        /\ gateway' = IF Invalid(endpoint, phone, payload)
                      THEN Answer(request, 400) ELSE request
        /\ UNCHANGED <<pipeline_vars, notifier_vars, legacy_vars>>

\* The health check returns: the handler raises 503 or awaits the post.
HealthChecked(reply) ==
    LET health  == CheckBaileysHealth(reply)
        request == [gateway EXCEPT !.checks = @ + 1, !.health = health]
    IN  /\ gateway.state = "health"
        /\ gateway' = IF Passes(health)
                      THEN [request EXCEPT !.state = "forward"]
                      ELSE Answer(request, 503)
        /\ UNCHANGED forwards
        /\ UNCHANGED <<pipeline_vars, notifier_vars, legacy_vars>>

\* The post to the Baileys server ends: the handler returns or raises.
Forwarded(upstream) ==
    /\ gateway.state = "forward"
    /\ upstream.kind = "read_error" => gateway.endpoint = "/send-image"
    /\ forwards' = IF Posts(upstream)
                   THEN Append(forwards, [path |-> BaileysPath(gateway.endpoint),
                                          phone |-> gateway.phone])
                   ELSE forwards
    /\ gateway' = Answer([gateway EXCEPT !.upstream = upstream], ForwardStatus(upstream))
    /\ UNCHANGED <<pipeline_vars, notifier_vars, legacy_vars>>

GatewayRequest == \E endpoint \in Endpoints, phone \in {"", Phone(1), Phone(2)},
                     payload \in {"", "x"} :
                      Receive(endpoint, phone, payload)
GatewayHealth == \E reply \in HealthReplies : HealthChecked(reply)
GatewayForward == \E upstream \in Upstreams : Forwarded(upstream)

(***************************************************************************)
(* The dispatch endpoints with the gateway as their channel: whatsapp_api_url *)
(* is the address of python_api.py.                                        *)
(***************************************************************************)
\* Has the gateway a POST route for the path?
Routed(path) == path \in Endpoints

\* The recipient the loop of the dispatch endpoint is at.
Recipient == phone_numbers[Len(dispatch.results) + 1]

\* The framework of the gateway answers a path without a route: no handler
\* runs, the client gets 404.
Unrouted(path, phone) ==
    /\ gateway.state \in {"idle", "done"}
    /\ ~Routed(path)
    /\ forwards' = <<>>
    /\ gateway' = [state |-> "done", endpoint |-> path, phone |-> phone,
                   payload |-> "x", checks |-> 0, health |-> NotChecked,
                   upstream |-> NoUpstream, status |-> 404]
    /\ UNCHANGED <<pipeline_vars, notifier_vars, legacy_vars>>

\* The dispatch endpoint posts its request for the next recipient.
DeliveryPost ==
    /\ Running
    /\ dispatch.state = "sending"
    /\ gateway.state = "idle"
    /\ \/ Routed(ChannelPath(dispatch.kind)) /\ Receive(ChannelPath(dispatch.kind), Recipient, "x")
       \/ Unrouted(ChannelPath(dispatch.kind), Recipient)

\* What the dispatch endpoint makes of the gateway's answer: 200 carries the
\* `success` of the Baileys server, any other status is an HTTP error.
ReplyOf(answer) == IF answer.status = 200 THEN "ok" ELSE "http_error"

\* The answer of the gateway reaches the dispatch endpoint.
DeliveryReply ==
    /\ gateway.state = "done"
    /\ DispatchLoop(ReplyOf(gateway))
    /\ gateway' = NoRequest
    /\ UNCHANGED <<forwards, notifier_vars, legacy_vars>>

(***************************************************************************)
(* Specifications.                                                         *)
(***************************************************************************)
\* The debouncer and the allocator under the default configuration.
InitDebounce ==
    ConfigFile(NoNumber, RecordingOff) /\ InitConfig(DefaultFlags, DefaultList, InitialCounters) /\ InitPipeline
NextDebounce == Frame
SpecDebounce == InitDebounce /\ [][NextDebounce]_vars

\* The detector and the normalizer in front of the debouncer.
InitDetector ==
    ConfigFile(NoNumber, RecordingOff) /\ InitConfig(DefaultFlags, DefaultList, {1}) /\ InitPipeline
NextDetector == InspectedFrame
SpecDetector == InitDetector /\ [][NextDetector]_vars

\* The whole pipeline under every channel configuration.
InitPipe ==
    ConfigFile(NoNumber, RecordingOff) /\ InitConfig(AllFlags, DefaultList, {1}) /\ InitPipeline
NextPipe == SparseFrame \/ StopTimer \/ VideoHandoff \/ ImageHandoff \/ TextHandoff
SpecPipe == InitPipe /\ [][NextPipe]_vars

\* The recorder alone: video on, images off.
VideoFlags == {f \in AllFlags : f[2] /\ ~f[1]}
InitRecorder ==
    ConfigFile(NoNumber, RecordingOff) /\ InitConfig(VideoFlags, DefaultList, {1}) /\ InitPipeline
NextRecorder == SparseFrame \/ StopTimer \/ VideoHandoff
SpecRecorder == InitRecorder /\ [][NextRecorder]_vars

\* The whole pipeline under every channel configuration and both values of
\* video.recording.enabled.
RecordingOnOff == BOOLEAN
InitModes ==
    ConfigFile(NoNumber, RecordingOnOff) /\ InitConfig(AllFlags, SingleList, {1}) /\ InitPipeline
NextModes == SparseFrame \/ StopTimer \/ VideoHandoff \/ ImageHandoff \/ TextHandoff
SpecModes == InitModes /\ [][NextModes]_vars

\* The browser notifier and its notification threads.
InitBrowser == ConfigFile(NoNumber, RecordingOff) /\ InitConfig(DefaultFlags, SingleList, {1}) /\ InitPipeline
NextNotifier == Startup \/ Notify \/ Lock \/ Select \/ Drive \/ Unlock
SpecNotifier == InitBrowser /\ [][NextNotifier]_vars

\* The threaded pipelines.
InitThreaded == ConfigFile(NoNumber, RecordingOff) /\ InitConfig(DefaultFlags, SingleList, {1}) /\ InitPipeline
NextLegacy == LegacyFrame \/ LegacyAllocate \/ LegacyLoad \/ LegacyStore
SpecLegacy == InitThreaded /\ [][NextLegacy]_vars

\* The gateway.
InitApi == ConfigFile(NoNumber, RecordingOff) /\ InitConfig(DefaultFlags, SingleList, {1}) /\ InitPipeline
NextGateway == GatewayRequest \/ GatewayHealth \/ GatewayForward
SpecGateway == InitApi /\ [][NextGateway]_vars

\* The dispatch endpoints in front of the gateway.
InitDelivery == ConfigFile(NoNumber, RecordingOff) /\ InitConfig(DefaultFlags, PhoneLists, {1}) /\ InitPipeline
NextDelivery == Request \/ DeliveryPost \/ GatewayHealth \/ GatewayForward \/ DeliveryReply
SpecDelivery == InitDelivery /\ [][NextDelivery]_vars

\* The whole server: frames, delivery tasks, endpoints, status query, shutdown.
SystemFlags == {<<TRUE, TRUE, FALSE>>, <<FALSE, FALSE, TRUE>>}
InitSystem ==
    ConfigFile(NoNumber, RecordingOff) /\ InitConfig(SystemFlags, SingleList, {1}) /\ InitPipeline
NextSystem ==
    \/ FireFrame
    \/ StopTimer \/ VideoHandoff \/ ImageHandoff \/ TextHandoff
    \/ Request \/ Reply
    \/ GetConfigStatus
    \/ Shutdown
SpecSystem == InitSystem /\ [][NextSystem]_vars

\* The dispatch endpoints under every recipient list.
InitDispatch ==
    ConfigFile(Numbers, RecordingOff) /\ InitConfig(DefaultFlags, PhoneLists, {1}) /\ InitPipeline
NextDispatch == Request \/ Reply
SpecDispatch == InitDispatch /\ [][NextDispatch]_vars

(***************************************************************************)
(* Properties.                                                             *)
(***************************************************************************)
\* A step of process_frame: the only action that flips `tick`.
FrameStep == tick' # tick

DigitValue(c) ==
    CASE c = "0" -> 0 [] c = "1" -> 1 [] c = "2" -> 2 [] c = "3" -> 3 [] c = "4" -> 4
      [] c = "5" -> 5 [] c = "6" -> 6 [] c = "7" -> 7 [] c = "8" -> 8 [] c = "9" -> 9

\* The number a string of decimal digits denotes.
RECURSIVE Decimal(_)
Decimal(digits) ==
    IF Len(digits) = 0 THEN 0
    ELSE 10 * Decimal(SubSeq(digits, 1, Len(digits) - 1))
         + DigitValue(SubSeq(digits, Len(digits), Len(digits)))

\* The digits of an alert id, and the number they denote.
IdDigits(id) == SubSeq(id, 6, Len(id))
IdNumber(id) == Decimal(IdDigits(id))

\* C1: a label classified new at t1 is not classified new by any later frame
\* that contains it at a time t2 with t2 - t1 < cooldown, whatever the frames
\* in between held.
DuplicateSuppressed ==
    [][FrameStep =>
        \A L \in Labels :
            (/\ L \in DOMAIN lastNew
             /\ L \in current_detected'
             /\ current_time' - lastNew[L] < Cooldown)
            => L \notin Range(new_detections')]_vars

\* C1 witness: fire was classified new, and a later frame inside the
\* cooldown contains it and does not classify it new.
DuplicateSuppressedWitness ==
    /\ "fire" \in current_detected
    /\ "fire" \notin Range(new_detections)
    /\ "fire" \in DOMAIN lastNew
    /\ current_time > lastNew["fire"]
    /\ current_time - lastNew["fire"] < Cooldown

\* C2: a label whose most recent new classification was at t1 and that a frame
\* at t2 with t2 - t1 >= cooldown contains is classified new by that frame,
\* and its stored timestamp becomes t2, whether or not its entry was evicted.
RealertAfterCooldown ==
    [][FrameStep =>
        \A L \in Labels :
            (/\ L \in DOMAIN lastNew
             /\ L \in current_detected'
             /\ current_time' - lastNew[L] >= Cooldown)
            => /\ L \in Range(new_detections')
               /\ L \in DOMAIN detection_status'
               /\ detection_status'[L] = current_time']_vars

\* C2 witness: fire, the only label seen so far, has just been classified new
\* for the second time.
RealertAfterCooldownWitness ==
    /\ new_detections = <<"fire">>
    /\ DOMAIN lastSeen = {"fire"}
    /\ Len(issued) = 2
    /\ current_time >= Cooldown
    /\ detection_status["fire"] = current_time

\* C3: a frame without L, processed when L has an entry and has been absent
\* for >= cooldown, removes the entry; and a frame that contains a label whose
\* entry was evicted classifies it new.
EvictionOnAbsence ==
    [][FrameStep =>
        \A L \in Labels :
            /\ (/\ L \in DOMAIN detection_status
                /\ L \in DOMAIN lastSeen
                /\ L \notin current_detected'
                /\ current_time' - lastSeen[L] >= Cooldown)
               => L \notin DOMAIN detection_status'
            /\ (/\ L \in DOMAIN lastSeen
                /\ L \notin DOMAIN detection_status
                /\ L \in current_detected')
               => /\ L \in Range(new_detections')
                  /\ detection_status'[L] = current_time']_vars

\* C3 witness: the entry of fire has been evicted by a frame without it.
EvictionOnAbsenceWitness ==
    /\ "fire" \in DOMAIN lastSeen
    /\ "fire" \notin current_detected
    /\ "fire" \notin DOMAIN detection_status
    /\ current_time - lastSeen["fire"] >= Cooldown

\* C4: alert ids are strictly increasing and never reused; alert_counter
\* grows by exactly 1 in a frame whose new-detections list is non-empty and
\* by 0 in every other frame, and no other operation changes it.
AlertIdsIncrease ==
    [][/\ FrameStep /\ new_detections' # <<>> =>
            /\ alert_counter' = alert_counter + 1
            /\ Len(issued') = Len(issued) + 1
            /\ \A i \in 1..Len(issued) :
                   /\ issued'[i] = issued[i]
                   /\ issued[i] # issued'[Len(issued')]
                   /\ IdNumber(issued[i]) < IdNumber(issued'[Len(issued')])
       /\ ~(FrameStep /\ new_detections' # <<>>) =>
            /\ alert_counter' = alert_counter
            /\ issued' = issued]_vars

\* C4 witness: one frame classified both labels new and allocated the second
\* alert of the run.
AlertIdsIncreaseWitness ==
    /\ Len(new_detections) = 2
    /\ Len(issued) = 2
    /\ alert_counter = 3

\* C5: with counter 1 a frame at t=0 with {fire} gives "ALERT001" and
\* "Violation(s) detected: fire"; after it a frame at t=3 with {fire} gives no
\* alert and leaves the counter; a frame at t=12 with {fire} gives "ALERT002".
\* In general the id is "ALERT" and the counter before the increment padded
\* with zeros to 3 digits, and the description lists exactly the new labels.
EndToEndAllocation ==
    [][FrameStep =>
        /\ (/\ alert_counter = 1 /\ detection_status = << >>
            /\ current_time' = 0 /\ current_detected' = {"fire"})
           => /\ alert'.id = "ALERT001"
              /\ alert'.description = "Violation(s) detected: fire"
              /\ alert_counter' = 2
        /\ (/\ alert_counter = 2 /\ detection_status = [L \in {"fire"} |-> 0]
            /\ current_time' = 3 /\ current_detected' = {"fire"})
           => /\ alert' = NoAlert
              /\ alert_counter' = 2
        /\ (/\ alert_counter = 2 /\ detection_status = [L \in {"fire"} |-> 0]
            /\ current_time' = 12 /\ current_detected' = {"fire"})
           => /\ alert'.id = "ALERT002"
              /\ alert'.description = "Violation(s) detected: fire"
        /\ new_detections' # <<>>
           => /\ SubSeq(alert'.id, 1, 5) = "ALERT"
              /\ Len(IdDigits(alert'.id)) >= 3
              /\ IdNumber(alert'.id) = alert_counter
              /\ (alert_counter >= 100 => Len(IdDigits(alert'.id)) = Len(ToString(alert_counter)))
              /\ alert'.labels = new_detections'
              /\ Range(new_detections') =
                     {L \in current_detected' :
                         L \notin DOMAIN detection_status
                         \/ detection_status'[L] # detection_status[L]}
              /\ alert'.description \in
                     {"Violation(s) detected: " \o L : L \in Range(new_detections')}
                     \cup UNION {{"Violation(s) detected: " \o L \o ", " \o M :
                                     M \in Range(new_detections') \ {L}} :
                                 L \in Range(new_detections')}
              /\ (Len(new_detections') = 2) = (Len(alert'.description) > 29)
        /\ new_detections' = <<>> => alert' = NoAlert]_vars

\* C5 witness: the third frame of the scenario has produced "ALERT002".
EndToEndAllocationWitness ==
    /\ current_time = 12
    /\ current_detected = {"fire"}
    /\ DOMAIN lastSeen = {"fire"}
    /\ alert.id = "ALERT002"
    /\ alert.description = "Violation(s) detected: fire"
    /\ alert_counter = 3

\* Was the request answered by the loop (not by an early return)?
Looped == dispatch.state = "done" /\ "results" \in DOMAIN dispatch.outcome

\* C6: every configured recipient gets exactly one send attempt, in list
\* order, whatever happened to the recipients before it; a recipient is
\* reported success exactly when its own post succeeded (3 recipients with
\* recipient 2 failing: success_count 2, recipients 1 and 3 success).
FanOutIndependence ==
    /\ dispatch.state = "sending" =>
           /\ Len(calls) = Len(dispatch.results)
           /\ Len(calls) < Len(phone_numbers)
    /\ dispatch.state # "idle" =>
           \A i \in 1..Len(calls) :
               /\ calls[i].phone = phone_numbers[i]
               /\ calls[i].path = ChannelPath(dispatch.kind)
    /\ (dispatch.state = "done" /\ dispatch.payload) =>
           /\ Len(calls) = Len(phone_numbers)
           /\ phone_numbers # <<>> =>
                /\ Looped
                /\ Len(dispatch.outcome.results) = Len(phone_numbers)
                /\ \A i \in 1..Len(calls) :
                       /\ dispatch.outcome.results[i].phone = phone_numbers[i]
                       /\ (dispatch.outcome.results[i].status = "success")
                              = (calls[i].reply = "ok")
                       /\ dispatch.outcome.results[i].status \in {"success", "failed"}
                /\ (/\ Len(calls) = 3
                    /\ calls[1].reply = "ok" /\ calls[2].reply # "ok" /\ calls[3].reply = "ok")
                   => dispatch.success_count = 2

\* C6 witness: three recipients, the post to the second raised, the first
\* and the third are reported success.
FanOutIndependenceWitness ==
    /\ Looped
    /\ Len(phone_numbers) = 3
    /\ calls[2].reply = "exception"
    /\ dispatch.outcome.results[1].status = "success"
    /\ dispatch.outcome.results[2].status = "failed"
    /\ dispatch.outcome.results[3].status = "success"
    /\ dispatch.success_count = 2

\* Does text `s` contain text `sub`?
Contains(s, sub) ==
    \E i \in 1..(Len(s) - Len(sub) + 1) : SubSeq(s, i, i + Len(sub) - 1) = sub

Successes(results) == Cardinality({i \in 1..Len(results) : results[i].status = "success"})

\* C7: for a non-empty recipient list the overall result is success exactly
\* when at least one recipient succeeded, the detail list has one entry per
\* recipient, success_count is the number of success entries, and the outcome
\* reports success_count/total together with the detail list, in the success
\* case and in the all-failed case.
AggregateOutcome ==
    (dispatch.state = "done" /\ dispatch.payload /\ phone_numbers # <<>>) =>
        /\ Looped
        /\ dispatch.outcome.success = (Successes(dispatch.outcome.results) > 0)
        /\ Len(dispatch.outcome.results) = Len(phone_numbers)
        /\ dispatch.success_count = Successes(dispatch.outcome.results)
        /\ Contains(dispatch.outcome.message,
                    ToString(dispatch.success_count) \o "/"
                    \o ToString(Len(phone_numbers)))

\* The number of recipients an outcome accounts for.
Total(outcome) == IF "results" \in DOMAIN outcome THEN Len(outcome.results) ELSE 0

OpenWriters == {i \in 1..Len(writers) : ~writers[i].released}
StopTimers(set) == {k \in set : k.kind = "auto_stop" /\ k.phase = "pending"}

\* C9: at most one recording session is active at any time, and a frame
\* processed while is_recording is true (an alert included) creates no second
\* session, no second writer and no second stop timer, and leaves the active
\* session's writer and artifact as they are.
RecordingExclusive ==
    [][/\ Cardinality(OpenWriters') <= 1
       /\ is_recording' => (video_writer' \in OpenWriters')
       /\ (FrameStep /\ is_recording) =>
              /\ is_recording'
              /\ video_writer' = video_writer
              /\ writers' = writers
              /\ "auto_stop" \notin started'
              /\ StopTimers(tasks') = StopTimers(tasks)]_vars

\* C9 witness: an alert fired while the first session was recording, and
\* there is still one writer and one stop timer.
RecordingExclusiveWitness ==
    /\ is_recording
    /\ Len(issued) = 2
    /\ alert # NoAlert
    /\ "auto_stop" \notin started
    /\ Len(writers) = 1
    /\ Cardinality(StopTimers(tasks)) = 1

\* C10: for an alert a text delivery is started if and only if send_text is
\* enabled and neither send_images nor send_videos is; with an image or video
\* channel enabled no text delivery is started.
ModeSelection ==
    /\ alert # NoAlert =>
           /\ ("text" \in started) = (send_text /\ ~send_images /\ ~send_videos)
           /\ (send_images \/ send_videos) => "text" \notin started
    /\ alert = NoAlert => started = {}
    /\ \A k \in tasks : k.kind = "text" => (send_text /\ ~send_images /\ ~send_videos)

\* C10 witness: an alert of a text-only configuration started its text
\* delivery.
ModeSelectionWitness ==
    /\ alert # NoAlert
    /\ started = {"text"}
    /\ send_text /\ ~send_images /\ ~send_videos

\* The labels that have a box above the threshold.
AboveThreshold(bs) ==
    {L \in Labels : \E i \in 1..Len(bs) : bs[i][1] = L /\ bs[i][2] > Threshold}

\* C11: when the detector raises while a frame is processed, also after it
\* has yielded detections, the frame's active-label set is empty, no alert is
\* allocated for it, and the eviction step of the debouncer still runs.
DetectorFailure ==
    [][(FrameStep /\ error') =>
            /\ current_detected' = {}
            /\ new_detections' = <<>>
            /\ alert' = NoAlert
            /\ alert_counter' = alert_counter
            /\ \A L \in DOMAIN detection_status :
                   current_time' - detection_status[L] >= Cooldown
                   => L \notin DOMAIN detection_status']_vars

\* C12: the active-label set of a frame is the set of labels that have a
\* detection with confidence strictly above the threshold; a detection at the
\* threshold contributes nothing, and a label detected several times is in
\* the set, and in the new-detections list, once.
Normalizer ==
    [][FrameStep =>
            /\ current_detected' = AboveThreshold(boxes')
            /\ \A i \in 1..Len(boxes') :
                   (/\ boxes'[i][2] = Threshold
                    /\ \A j \in 1..Len(boxes') :
                           boxes'[j][1] = boxes'[i][1] => boxes'[j][2] <= Threshold)
                   => boxes'[i][1] \notin current_detected'
            /\ Range(new_detections') \subseteq current_detected'
            /\ Len(new_detections') = Cardinality(Range(new_detections'))
            /\ Len(new_detections') <= Cardinality(AboveThreshold(boxes'))]_vars

\* C12 witness: two boxes of fire, and one of fire above and one of smoke at
\* the threshold, each gave the one new detection fire.
NormalizerWitness ==
    /\ ~error
    /\ boxes \in {<<<<"fire", 90>>, <<"fire", 90>>>>,
                  <<<<"smoke", Threshold>>, <<"fire", 90>>>>}
    /\ current_detected = {"fire"}
    /\ new_detections = <<"fire">>

\* The stop timers that have stopped their session and not finished yet.
Finalizing(set) == {k \in set : k.kind = "auto_stop" /\ k.phase = "stopped"}
VideoHandoffs == {h \in BagToSet(handoffs) : h.kind = "video"}

\* C13: every recording session that is started is ended by its stop timer
\* (a session that is active has its stop timer ahead of it, and is_recording
\* becomes false when the timer has run), and once the timer has finished the
\* artifact path and the id of the triggering alert have been handed to the
\* video dispatch exactly once.
RecordingLifecycle ==
    /\ is_recording =>
           \E k \in StopTimers(tasks) : k.arg = writers[video_writer].path
    /\ \A i \in 1..Len(writers) :
           (\A k \in tasks : k.arg # writers[i].path) =>
               /\ writers[i].released
               /\ \E h \in VideoHandoffs :
                      /\ h.arg = writers[i].path
                      /\ h.alert_id \in Range(issued)
                      /\ CopiesIn(h, handoffs) = 1

\* C14: while a recording session is active every frame passed to
\* process_frame, the triggering one included, is appended to its artifact,
\* with or without an alert or a detection; with no session active no frame
\* is appended.
RecordingAppends ==
    [][FrameStep =>
            IF is_recording'
            THEN /\ written' = video_writer'
                 /\ written' \in OpenWriters'
            ELSE written' = 0]_vars

\* C14 witness: a frame without any detection was appended to the artifact
\* of the active session.
RecordingAppendsWitness ==
    /\ is_recording
    /\ current_detected = {}
    /\ alert = NoAlert
    /\ written = video_writer
    /\ written \in OpenWriters

\* C15: when the artifact file does not exist at finalize time no video
\* delivery is attempted and auto_stop_recording finishes without raising; an
\* exception during the hand-off is caught as well.
MissingArtifact ==
    [][Finalizing(tasks) \ tasks' # {} =>
            /\ finalized' \in {"not_found", "posted", "caught"}
            /\ finalized' \in {"not_found", "caught"} => handoffs' = handoffs
            /\ finalized' = "posted" =>
                   \E k \in Finalizing(tasks) \ tasks' :
                       handoffs' = handoffs (+) SetToBag({Handoff("video", k.alert_id, k.arg)})
            /\ tasks' \subseteq tasks]_vars

\* C15 witness: a session was finalized with its file missing, and no video
\* was handed over.
MissingArtifactWitness ==
    /\ finalized = "not_found"
    /\ Len(writers) = 1
    /\ writers[1].released
    /\ tasks = {}
    /\ VideoHandoffs = {}

\* C16: when starting or finalizing a recording fails the recorder is in
\* Idle afterwards (is_recording false) and no video delivery job is created
\* for the failed session.
RecordingErrors ==
    [][/\ (FrameStep /\ alert' # NoAlert /\ send_videos /\ ~is_recording
           /\ writers' = writers)
          => (~is_recording' /\ "auto_stop" \notin started')
       /\ \A k \in StopTimers(tasks) \ tasks' :
              [k EXCEPT !.phase = "stopped"] \notin tasks'
              => (~is_recording' /\ handoffs' = handoffs)]_vars

\* C17: the alert id start_recording uses to remove old artifacts and to
\* name the new one is the id allocated to the triggering alert, which is
\* also the id handed to the stop timer and on to the dispatcher.
ArtifactNaming ==
    [][(FrameStep /\ "auto_stop" \in started') =>
            /\ SubSeq(writers'[video_writer'].path, 1, Len("violation_" \o alert'.id \o "_"))
                   = "violation_" \o alert'.id \o "_"
            /\ \E k \in tasks' \ tasks :
                   /\ k.kind = "auto_stop"
                   /\ k.alert_id = alert'.id
                   /\ k.arg = writers'[video_writer'].path]_vars

\* C19: process_frame hands its deliveries off and does not wait for them:
\* a frame finishes no delivery, a frame can be processed whatever deliveries
\* are pending, and its debounce and allocation result depends on
\* detection_status, the counter, the time and the detections alone.
NonBlocking ==
    /\ [][FrameStep =>
            /\ tasks \subseteq tasks'
            /\ handoffs' = handoffs
            /\ Range(new_detections') =
                   {L \in current_detected' :
                       \/ L \notin DOMAIN detection_status
                       \/ current_time' - detection_status[L] >= Cooldown}
            /\ alert_counter' = alert_counter + (IF new_detections' # <<>> THEN 1 ELSE 0)]_vars
    /\ [](ENABLED ProcessFrame(current_time, <<>>, TRUE))

\* C19 witness: the second alert was allocated while the video delivery of
\* the first was still pending.
NonBlockingWitness ==
    /\ alert.id = AlertId(2)
    /\ \E k \in tasks : k.kind = "auto_stop" /\ k.alert_id = AlertId(1)

\* C18: detection_status and alert_counter are changed only by
\* process_frame: every delivery task, every dispatch endpoint and the
\* status query leave both unchanged.
SingleWriter ==
    [][~FrameStep =>
            /\ detection_status' = detection_status
            /\ alert_counter' = alert_counter]_vars

\* C18 witness: with an entry in detection_status and the counter advanced,
\* a video was handed over, a dispatch request was answered by its loop and
\* the status query reported the counter.
SingleWriterWitness ==
    /\ DOMAIN detection_status = {"fire"}
    /\ alert_counter = 2
    /\ VideoHandoffs # {}
    /\ Looped
    /\ config_status.alert_counter = 2

\* C20: on the shutdown signal the delivery side drains before it stops: once
\* the signal is given no new delivery job is accepted, and the server is
\* Stopped only with the in-flight job finished and nothing left unfinished.
ShutdownDrain ==
    [][/\ server # "running" => tasks' \subseteq tasks
       /\ (server = "running" /\ server' # "running" /\ tasks # {})
             => server' = "draining"
       /\ server' = "stopped" => (tasks' = {} /\ dispatch'.state # "sending")]_vars

\* C23 (as amended): process_frame evicts the entry of L only in a frame that
\* does not contain L and is processed at least a cooldown after the timestamp
\* the entry holds, the time L was last classified new.
EvictionAfterCooldown ==
    [][FrameStep =>
        \A L \in DOMAIN detection_status \ DOMAIN detection_status' :
            /\ L \notin current_detected'
            /\ L \in DOMAIN lastNew
            /\ detection_status[L] = lastNew[L]
            /\ current_time' - lastNew[L] >= Cooldown]_vars

\* C23 witness: the entry of fire was evicted by a frame without fire that
\* came less than a cooldown after the last frame with fire.
EvictionAfterCooldownWitness ==
    /\ "fire" \in DOMAIN lastSeen
    /\ "fire" \notin current_detected
    /\ "fire" \notin DOMAIN detection_status
    /\ current_time - lastSeen["fire"] < Cooldown
    /\ current_time - lastNew["fire"] >= Cooldown

\* C23 as stated: whenever process_frame evicts L, every frame processed
\* during the preceding cooldown was without L.
EvictedOnlyAfterAbsence ==
    [][FrameStep =>
        \A L \in DOMAIN detection_status \ DOMAIN detection_status' :
            /\ L \in DOMAIN lastSeen
            /\ current_time' - lastSeen[L] >= Cooldown]_vars

\* A status query whose reply differs from the previous one.
StatusStep == config_status' # config_status

\* C22: the status query changes no pipeline state (detection_status,
\* alert_counter, is_recording, recipients, channel flags, nor anything else
\* but the reply), and the reply holds the channel flags, the recipient count
\* equal to the length of the recipient list, the alert counter and the
\* recording flag of the state it was asked in; the counter it reports is the
\* number the next alert gets.
StatusReadOnly ==
    [][/\ StatusStep =>
            /\ UNCHANGED <<config_vars, frame_vars, recorder_vars, task_vars,
                           dispatch_vars, detector_vars, server>>
            /\ config_status'.send_images = send_images
            /\ config_status'.send_videos = send_videos
            /\ config_status'.send_text = send_text
            /\ config_status'.phone_numbers_count = Len(phone_numbers)
            /\ config_status'.alert_counter = alert_counter
            /\ config_status'.recording_active = is_recording
       /\ (/\ FrameStep
           /\ Len(issued') > Len(issued)
           /\ config_status.alert_counter = alert_counter)
          => issued'[Len(issued')] = AlertId(config_status.alert_counter)]_vars

\* C22 witness: a query answered after the recording of the first alert was
\* stopped: the writer handle is still set, and the reply tells that no
\* recording is active and that the next alert gets number 2.
StatusReadOnlyWitness ==
    /\ config_status.alert_counter = 2
    /\ alert_counter = 2
    /\ config_status.phone_numbers_count = 1
    /\ config_status.send_videos
    /\ ~config_status.recording_active
    /\ ~is_recording
    /\ video_writer # 0

\* C30: the recipient list is the configured phone_numbers list when that is
\* non-empty, else the single configured phone_number as a one-element list,
\* else empty; and no operation changes it after construction.
RecipientsFixed ==
    /\ [](/\ config_phone_numbers # <<>> => phone_numbers = config_phone_numbers
          /\ (config_phone_numbers = <<>> /\ single_phone # "")
                => phone_numbers = <<single_phone>>
          /\ (config_phone_numbers = <<>> /\ single_phone = "")
                => phone_numbers = <<>>)
    /\ [][phone_numbers' = phone_numbers]_vars

\* C30 witness: no list configured, a single number configured, and a request
\* was delivered to that number.
RecipientsFixedWitness ==
    /\ config_phone_numbers = <<>>
    /\ single_phone = Phone(9)
    /\ dispatch.state = "done"
    /\ Len(calls) = 1
    /\ calls[1].phone = Phone(9)

\* C25: video clips are recorded and delivered for an alert only when both
\* send_videos and video.recording.enabled are true; otherwise images are
\* delivered when send_images is true; otherwise text messages only.
ModeAsTested ==
    [][(FrameStep /\ Len(issued') > Len(issued)) =>
        LET mode == Mode(send_images, send_videos, recording_enabled)
        IN  /\ "auto_stop" \in started' => mode = "Video clips with captions"
            /\ mode = "Images with captions"
                 => "image" \in started' /\ "auto_stop" \notin started'
            /\ mode = "Text messages only"
                 => "image" \notin started' /\ "auto_stop" \notin started']_vars

\* The threads inside the `with self.send_lock` block of send_message.
Sending == {th \in NotifierThreads : threads[th].pc \in InsideLock}

\* The browser steps of the notification threads.
Driven == SelectSeq(browser, LAMBDA b : b.thread # 0)

\* The steps of each thread are next to one another in the browser's log.
Contiguous(log) ==
    \A i, j, k \in 1..Len(log) :
        (i < j /\ j < k /\ log[i].thread = log[k].thread) => log[j].thread = log[i].thread

\* A step of the thread that holds send_lock.
HolderStep == \E th \in NotifierThreads : send_lock = th /\ threads'[th] # threads[th]

\* C29 (as amended): at most one notification thread at a time is inside the
\* send sequence of send_message, the browser steps of two messages never
\* interleave, and once the application serves current_contact is changed
\* only by the thread that holds send_lock; before that, startup's
\* open_contact_chat assigns it without the lock.
SendSerialised ==
    /\ [](Cardinality(Sending) <= 1 /\ Contiguous(Driven))
    /\ [][current_contact' # current_contact => (notifier = "startup" \/ HolderStep)]_vars

\* C29 witness: two threads have sent to different contacts, the second
\* after it changed the open chat.
SendSerialisedWitness ==
    /\ \A th \in {1, 2} : threads[th].pc = "done"
    /\ threads[1].contact_name # threads[2].contact_name
    /\ \A th \in {1, 2} : \E i \in 1..Len(browser) :
           browser[i].thread = th /\ browser[i].step = "enter"
    /\ current_contact # NoContact

\* C29 as stated: current_contact is changed only by the thread that holds
\* send_lock, and the sends are serialised.
ContactChangedUnderLock ==
    /\ [](Cardinality(Sending) <= 1 /\ Contiguous(Driven))
    /\ [][current_contact' # current_contact => HolderStep]_vars

\* C21: a thread that is at a browser step of send_message holds no lock.
NoLockAcrossIO ==
    \A th \in NotifierThreads : threads[th].pc \in SendSteps => send_lock # th

\* C24: in the threaded pipelines a label that produced an alert produces no
\* further alert in a frame processed less than the cooldown afterwards.
LegacyDeduplicated ==
    \A i, j \in 1..Len(notifications) :
        (/\ i < j
         /\ notifications[i].labels \cap notifications[j].labels # {})
        => notifications[j].time - notifications[i].time >= Cooldown

\* C26: in the threaded pipelines no two alerts receive the same alert id,
\* and once every call of process_frame has returned alert_counter is
\* advanced by exactly the number of alerts produced.
LegacyIdsUnique ==
    /\ \A i, j \in 1..Len(notifications) :
           i # j => notifications[i].alert_id # notifications[j].alert_id
    /\ (\A h \in Handlers : handlers[h].pc = "idle")
          => global_alert_counter = 1 + Len(notifications)

\* C27: the gateway forwards a request to the Baileys server only after a
\* health check of the same request reported healthy and connected; when the
\* health check fails, errors or reports not connected it answers 503 and
\* forwards nothing; a request with an empty phone, message or image URL is
\* answered 400 before any health check or forward.
GatewayGate ==
    /\ forwards # <<>> =>
          /\ gateway.checks = 1
          /\ gateway.health.healthy
          /\ gateway.health.connected
    /\ (/\ gateway.state = "done"
        /\ gateway.checks = 1
        /\ ~(gateway.health.healthy /\ gateway.health.connected))
          => gateway.status = 503 /\ forwards = <<>>
    /\ (/\ gateway.state = "done"
        /\ \/ gateway.phone = ""
           \/ gateway.endpoint # "/send-image" /\ gateway.payload = "")
          => gateway.status = 400 /\ gateway.checks = 0 /\ forwards = <<>>

\* C27 witness: a request was forwarded after its health check, and answered.
GatewayGateWitness ==
    /\ gateway.state = "done"
    /\ gateway.checks = 1
    /\ gateway.health.connected
    /\ Len(forwards) = 1
    /\ forwards[1].path = "/send-message"
    /\ gateway.status = 200

\* C28: a timeout talking to the Baileys server yields 504, another request
\* error 503, a non-200 upstream reply is passed on with the upstream status,
\* the 400 and 503 raised inside the handler reach the client unchanged, and
\* every other failure yields 500.
GatewayErrorMapping ==
    gateway.state = "done" =>
        LET upstream == gateway.upstream
        IN  /\ upstream.kind = "none" => gateway.status \in {400, 503}
            /\ upstream.kind = "timeout" => gateway.status = 504
            /\ upstream.kind = "request_error" => gateway.status = 503
            /\ (Replied(upstream) /\ upstream.status # 200)
                  => gateway.status = upstream.status
            /\ upstream.kind \in {"ok_unreadable", "read_error"} => gateway.status = 500
            /\ upstream.kind = "ok" => gateway.status = 200

\* C31: after every process_frame call every entry of detection_status is
\* younger than the cooldown at the time of the frame, every label of the
\* frame's active-label set has an entry, and no entry holds a time later
\* than the time of the last processed frame.
DebouncerInvariant ==
    /\ \A L \in DOMAIN detection_status :
           /\ current_time - detection_status[L] < Cooldown
           /\ detection_status[L] <= current_time
    /\ current_detected \subseteq DOMAIN detection_status

\* C31 witness: the entry of fire, 9 s old, is kept by a frame without fire,
\* while smoke, seen by that frame for the first time, got its entry.
DebouncerInvariantWitness ==
    /\ current_detected = {"smoke"}
    /\ DOMAIN detection_status = {"fire", "smoke"}
    /\ current_time - detection_status["fire"] = 9
    /\ detection_status["smoke"] = current_time

\* C32: a frame that suppresses a label as a duplicate leaves its
\* detection_status timestamp, the time of its last alert, unchanged; and a
\* frame that contains a label with an entry classifies it new exactly when
\* at least a cooldown has passed since that timestamp, so a label present in
\* every frame is new again at the first such frame and at none before.
TimestampOfLastAlert ==
    [][FrameStep =>
        \A L \in current_detected' \cap DOMAIN detection_status :
            /\ detection_status[L] = lastNew[L]
            /\ L \in Range(new_detections')
                 <=> current_time' - detection_status[L] >= Cooldown
            /\ L \notin Range(new_detections')
                 => detection_status'[L] = detection_status[L]]_vars

\* C32 witness: fire, alerted at time 0, is suppressed by a frame 9 s later,
\* and its entry still holds the time of the alert, not of this sighting.
TimestampOfLastAlertWitness ==
    /\ current_detected = {"fire"}
    /\ new_detections = <<>>
    /\ current_time = 9
    /\ lastSeen["fire"] = 9
    /\ detection_status["fire"] = 0
    /\ Len(issued) = 1

\* A frame that allocates an alert id.
AlertStep == FrameStep /\ Len(issued') > Len(issued)

\* C33 (as amended): a frame that allocates an alert id starts an image task
\* when send_images is on, a text task when only send_text is on, and a stop
\* timer with every recording session it starts; with send_videos on and
\* send_images off an alert that fires while a recording is active, or whose
\* start_recording fails, starts no delivery at all.
HandoffByMode ==
    [][AlertStep =>
        /\ send_images => "image" \in started'
        /\ (send_text /\ ~send_images /\ ~send_videos) => "text" \in started'
        /\ (~is_recording /\ is_recording') => "auto_stop" \in started'
        /\ (/\ send_videos
            /\ ~send_images
            /\ is_recording \/ ~is_recording')
           => started' = {}]_vars

\* C33 witness: with only video enabled the second alert fired while the
\* recording of the first was active, and started nothing.
HandoffByModeWitness ==
    /\ send_videos
    /\ ~send_images
    /\ Len(issued) = 2
    /\ alert # NoAlert
    /\ started = {}
    /\ is_recording
    /\ Len(writers) = 1

\* C33 as stated: a frame that allocates an alert id with at least one
\* channel enabled starts at least one delivery for it.
NoAlertDropped ==
    [][(AlertStep /\ (send_images \/ send_videos \/ send_text)) => started' # {}]_vars

\* C34: under every interleaving of process_frame with auto_stop_recording a
\* frame is written only to the writer of the session that is active, never
\* to a writer that stop_recording has released.
NoWriteAfterRelease ==
    [][(FrameStep /\ written' # 0) =>
            /\ is_recording'
            /\ written' = video_writer'
            /\ ~writers'[written'].released
            /\ \A i \in 1..Len(writers) : writers[i].released => written' # i]_vars

\* C34 witness: the first session was stopped and its timer is in the wait
\* before the upload; a second session started meanwhile, and the frame went
\* to its writer.
NoWriteAfterReleaseWitness ==
    /\ \E k \in tasks : k.kind = "auto_stop" /\ k.phase = "stopped"
    /\ Len(writers) = 2
    /\ writers[1].released
    /\ is_recording
    /\ written = 2

\* C35: whenever is_recording is true exactly one auto_stop_recording timer
\* is pending and it is the one created for the active session; a session is
\* stopped only by a step of the timer created for it.
OneStopTimer ==
    [][/\ is_recording' =>
            /\ Cardinality(StopTimers(tasks')) = 1
            /\ \A k \in StopTimers(tasks') : k.arg = writers'[video_writer'].path
       /\ (is_recording /\ ~is_recording') =>
            \E k \in StopTimers(tasks) \ tasks' : k.arg = writers[video_writer].path]_vars

\* C36: for each of text, image and video, the request of the dispatch
\* endpoint reaches a send operation of the gateway, and when the Baileys
\* server is healthy and connected and accepts the message the dispatch
\* reports success for the recipient.
DeliverableThroughGateway ==
    gateway.state = "done" =>
        /\ gateway.endpoint \in Endpoints
        /\ gateway.status # 404
        /\ (gateway.upstream.kind = "ok") => ReplyOf(gateway) = "ok"

====
